---- MODULE Spec2Model ----
(***************************************************************************)
(* A model of src/app.py: the SKUAnalyzer of the SKU Management Dashboard. *)
(* A table (a pandas DataFrame) is a record of its column names and its    *)
(* rows; a cell is a tagged value (text, number, NaN, None).  The caller's *)
(* three tables and the analyzer's three tables are separate variables:    *)
(* assigning `.columns` changes the object the caller also holds, while    *)
(* filtering rebinds the analyzer's attribute to a new table.              *)
(***************************************************************************)
EXTENDS Integers, Sequences, FiniteSets, TLC

VARIABLES
    caller_master,  \* the table objects held by the caller (main's master_data, ...)
    caller_rofo,
    caller_sales,
    analyzer,       \* the SKUAnalyzer object, [built |-> FALSE] before construction
    errors,         \* number of st.error reports the analyzer's prepare_data made
    last,           \* the last analyzer operation and what it returned or raised
    first_accuracy, \* the first result of calculate_forecast_accuracy, <<>> before
                    \* the first call; stale once a later analyzer was built
    main            \* the position of main() and what it has done so far

vars == <<caller_master, caller_rofo, caller_sales, analyzer, errors,
          last, first_accuracy, main>>

----------------------------------------------------------------------------
(* Bounds of the model *)

\* total number of data rows over the three input tables
MaxRows == 3

(* Program constants *)

\* range(1, 12): the months 1..11
NumMonths == 11

----------------------------------------------------------------------------
(* Cells *)

Str(s) == [k |-> "str", s |-> s, n |-> 0, d |-> 1]
Rat(n, d) == [k |-> "num", s |-> "", n |-> n, d |-> d]
Num(n) == Rat(n, 1)
NaN == [k |-> "nan", s |-> "", n |-> 0, d |-> 1]
None == [k |-> "none", s |-> "", n |-> 0, d |-> 1]

\* pd.notna
notna(c) == c.k \notin {"nan", "none"}

\* Python ==, elementwise: NaN equals nothing, text never equals a number
PyEq(a, b) ==
    /\ a.k = b.k
    /\ a.k \in {"str", "num"}
    /\ IF a.k = "str" THEN a.s = b.s ELSE a.n * b.d = b.n * a.d

Min(a, b) == IF a < b THEN a ELSE b
Abs(x) == IF x < 0 THEN 0 - x ELSE x

RECURSIVE Gcd(_, _)
Gcd(a, b) == IF b = 0 THEN a ELSE Gcd(b, a % b)

\* a number as a fraction in lowest terms, d > 0
Frac(n, d) == LET g == Gcd(Abs(n), d) IN Rat(n \div g, d \div g)

----------------------------------------------------------------------------
(* Tables *)

Table(cols, rows) == [cols |-> cols, rows |-> rows]
NoTable == Table(<<>>, <<>>)

\* DataFrame.empty: no rows or no columns
Empty(t) == Len(t.rows) = 0 \/ Len(t.cols) = 0

HasCol(cols, name) == \E i \in 1..Len(cols) : cols[i] = name
ColIndex(cols, name) ==
    CHOOSE i \in 1..Len(cols) :
        cols[i] = name /\ \A j \in 1..(i - 1) : cols[j] # name

\* row[name] for a row of table t
Cell(t, row, name) == row[ColIndex(t.cols, name)]

\* row.get(name, default)
CellOr(t, row, name, default) ==
    IF HasCol(t.cols, name) THEN Cell(t, row, name) ELSE default

ForecastCols ==
    <<"Forecast_01", "Forecast_02", "Forecast_03", "Forecast_04", "Forecast_05",
      "Forecast_06", "Forecast_07", "Forecast_08", "Forecast_09", "Forecast_10",
      "Forecast_11">>
SalesCols ==
    <<"Sales_01", "Sales_02", "Sales_03", "Sales_04", "Sales_05", "Sales_06",
      "Sales_07", "Sales_08", "Sales_09", "Sales_10", "Sales_11">>
AccuracyCols ==
    <<"Accuracy_01", "Accuracy_02", "Accuracy_03", "Accuracy_04", "Accuracy_05",
      "Accuracy_06", "Accuracy_07", "Accuracy_08", "Accuracy_09", "Accuracy_10",
      "Accuracy_11">>
Months == 1..NumMonths

master_columns == <<"Material", "OLD_Material", "SKU_SAP">>
rofo_columns ==
    <<"SKU_GOA", "SKU_SAP", "Product_Name", "Brand", "Notes", "Qty_Per_Box">>
        \o SubSeq(ForecastCols, 1, NumMonths)
sales_columns ==
    <<"Current_SKU", "SKU_SAP", "SKU_Old", "SKU_Name", "Brand", "Category",
      "SKU_Tier">> \o SubSeq(SalesCols, 1, NumMonths)

\* names[:available_cols] + list(columns[available_cols:])
RenamedColumns(names, cols) ==
    LET available_cols == Min(Len(names), Len(cols))
    IN  SubSeq(names, 1, available_cols) \o SubSeq(cols, available_cols + 1, Len(cols))

----------------------------------------------------------------------------
(* SKUAnalyzer.prepare_data, lines 90-122.  A step works on the record      *)
(*   [master, rofo, sales : the analyzer's attributes,                      *)
(*    cm, cr, cs          : the caller's table objects,                     *)
(*    raised              : an exception left the try block's body]         *)
(* and does nothing once an exception was raised.                           *)

\* str.contains('Current SKU') on the text of a cell
ContainsCurrentSKU(c) ==
    c.k = "str" /\ c.s \in {"Current SKU", "Current SKU (old)"}

\* self.master_data.dropna(subset=['Material'])
DropNaMaterial(t) ==
    Table(t.cols, SelectSeq(t.rows, LAMBDA row : notna(Cell(t, row, "Material"))))

\* self.rofo_data[self.rofo_data['SKU_SAP'] != 'SKU SAP']
DropRofoHeaderRows(t) ==
    Table(t.cols,
          SelectSeq(t.rows, LAMBDA row : ~PyEq(Cell(t, row, "SKU_SAP"), Str("SKU SAP"))))

\* self.sales_data[~self.sales_data['Current_SKU'].astype(str).str.contains(...)]
DropSalesHeaderRows(t) ==
    Table(t.cols,
          SelectSeq(t.rows, LAMBDA row : ~ContainsCurrentSKU(Cell(t, row, "Current_SKU"))))

\* lines 94-96: the column assignment raises on a length mismatch and then
\* changes nothing; otherwise it renames the columns of the shared object
CleanMaster(p) ==
    IF p.raised \/ Empty(p.master) THEN p
    ELSE IF Len(p.master.cols) # Len(master_columns) THEN [p EXCEPT !.raised = TRUE]
    ELSE LET renamed == Table(master_columns, p.master.rows)
         IN  [p EXCEPT !.cm = renamed, !.master = DropNaMaterial(renamed)]

\* lines 99-107: the rename keeps the number of columns; the filter raises
\* KeyError when no column is called SKU_SAP
CleanRofo(p) ==
    IF p.raised \/ Empty(p.rofo) THEN p
    ELSE LET renamed == Table(RenamedColumns(rofo_columns, p.rofo.cols), p.rofo.rows)
         IN  IF ~HasCol(renamed.cols, "SKU_SAP")
             THEN [p EXCEPT !.cr = renamed, !.rofo = renamed, !.raised = TRUE]
             ELSE [p EXCEPT !.cr = renamed, !.rofo = DropRofoHeaderRows(renamed)]

\* lines 110-116: a non-empty table has a first column, so Current_SKU exists
CleanSales(p) ==
    IF p.raised \/ Empty(p.sales) THEN p
    ELSE LET renamed == Table(RenamedColumns(sales_columns, p.sales.cols), p.sales.rows)
         IN  [p EXCEPT !.cs = renamed, !.sales = DropSalesHeaderRows(renamed)]

\* dict assignment: a later write to the same key replaces the earlier one
Put(m, key, val) == [x \in (DOMAIN m) \cup {key} |-> IF x = key THEN val ELSE m[x]]

EmptyDict == [x \in {} |-> None]

\* lines 129-132, one row
MapRow(m, t, row) ==
    LET sap == Cell(t, row, "SKU_SAP")
        m1 == IF notna(Cell(t, row, "Material")) /\ notna(sap)
              THEN Put(m, Cell(t, row, "Material"), sap) ELSE m
    IN  IF notna(Cell(t, row, "OLD_Material")) /\ notna(sap)
        THEN Put(m1, Cell(t, row, "OLD_Material"), sap) ELSE m1

RECURSIVE MapRows(_, _, _)
MapRows(m, t, i) ==
    IF i > Len(t.rows) THEN m ELSE MapRows(MapRow(m, t, t.rows[i]), t, i + 1)

\* SKUAnalyzer.create_mappings
create_mappings(master) ==
    IF Empty(master) THEN EmptyDict ELSE MapRows(EmptyDict, master, 1)

\* SKUAnalyzer.__init__ and prepare_data on the caller's three tables
prepare_data(m, r, s) ==
    LET p0 == [master |-> m, rofo |-> r, sales |-> s,
               cm |-> m, cr |-> r, cs |-> s, raised |-> FALSE]
        p == CleanSales(CleanRofo(CleanMaster(p0)))
    IN  [master_data |-> p.master, rofo_data |-> p.rofo, sales_data |-> p.sales,
         caller_master |-> p.cm, caller_rofo |-> p.cr, caller_sales |-> p.cs,
         raised |-> p.raised,
         has_mapping |-> ~p.raised,
         sku_mapping |-> IF p.raised THEN EmptyDict ELSE create_mappings(p.master)]

----------------------------------------------------------------------------
(* SKUAnalyzer.calculate_forecast_accuracy, lines 174-214 *)

\* a list that outlives the call and is never emptied
AccuracyDataKept(previous) == previous

\* line 176: accuracy_data = []
InitialAccuracyData(previous) == <<>>

\* the guard without its test of the forecast value
GuardWithoutZeroTest(forecast_val, sales_val) ==
    notna(forecast_val) /\ notna(sales_val)

\* line 201: the guard of the division
DivisionGuard(forecast_val, sales_val) ==
    notna(forecast_val) /\ notna(sales_val) /\ ~PyEq(forecast_val, Num(0))

\* the percentage of line 203 stored as computed, without max(0, min(100, .))
AccuracyWithoutClamp(forecast_val, sales_val) ==
    IF forecast_val.k # "num" \/ sales_val.k # "num" \/ forecast_val.n = 0 THEN None
    ELSE LET f == forecast_val.n * sales_val.d
             s == sales_val.n * forecast_val.d
         IN  IF f < 0 THEN Frac(100 * (Abs(s - f) - f), 0 - f)
             ELSE Frac(100 * (f - Abs(s - f)), f)

\* lines 202-206: the arithmetic raises on text (TypeError) and on a zero
\* divisor (ZeroDivisionError); the bare except turns both into None
Accuracy(forecast_val, sales_val) ==
    IF forecast_val.k # "num" \/ sales_val.k # "num" \/ forecast_val.n = 0 THEN None
    ELSE LET f == forecast_val.n * sales_val.d      \* both over one denominator
             s == sales_val.n * forecast_val.d
         IN  IF f < 0 THEN Num(100)                 \* min(100, .) of a value >= 100
             ELSE IF Abs(s - f) >= f THEN Num(0)    \* max(0, .) of a value <= 0
             ELSE Frac(100 * (f - Abs(s - f)), f)

\* lines 197-210, one month
MonthAccuracy(rofo, rofo_row, sales, sales_row, i) ==
    IF HasCol(rofo.cols, ForecastCols[i]) /\ HasCol(sales.cols, SalesCols[i])
    THEN LET forecast_val == Cell(rofo, rofo_row, ForecastCols[i])
             sales_val == Cell(sales, sales_row, SalesCols[i])
         IN  IF DivisionGuard(forecast_val, sales_val)
             THEN Accuracy(forecast_val, sales_val) ELSE None
    ELSE None

\* the divisors of the divisions line 203 executes for one pair of rows
MonthDivisors(rofo, rofo_row, sales, sales_row) ==
    {Cell(rofo, rofo_row, ForecastCols[i]) : i \in
        {j \in Months :
            /\ HasCol(rofo.cols, ForecastCols[j]) /\ HasCol(sales.cols, SalesCols[j])
            /\ DivisionGuard(Cell(rofo, rofo_row, ForecastCols[j]),
                             Cell(sales, sales_row, SalesCols[j]))
            /\ Cell(rofo, rofo_row, ForecastCols[j]).k = "num"
            /\ Cell(sales, sales_row, SalesCols[j]).k = "num"}}

\* line 185: self.sales_data[self.sales_data['SKU_SAP'] == sku_sap]
SalesMatch(sales, sku_sap) ==
    SelectSeq(sales.rows, LAMBDA row : PyEq(Cell(sales, row, "SKU_SAP"), sku_sap))

\* lines 188-210: the row built from a forecast row and its first sales match
AccuracyRow(rofo, rofo_row, sales, sales_row) ==
    [c \in {"SKU_SAP", "Product_Name"} \cup {AccuracyCols[i] : i \in Months} |->
        IF c = "SKU_SAP" THEN Cell(rofo, rofo_row, "SKU_SAP")
        ELSE IF c = "Product_Name" THEN CellOr(rofo, rofo_row, "Product_Name", Str(""))
        ELSE MonthAccuracy(rofo, rofo_row, sales, sales_row,
                           CHOOSE i \in Months : AccuracyCols[i] = c)]

\* a loop that gives a SKU_SAP one row only, from its first forecast row
RECURSIVE AccuracyLoopOncePerSku(_, _, _, _)
AccuracyLoopOncePerSku(accuracy_data, rofo, sales, j) ==
    IF j > Len(rofo.rows) THEN accuracy_data
    ELSE LET rofo_row == rofo.rows[j]
             sku_sap == Cell(rofo, rofo_row, "SKU_SAP")
             sales_match == SalesMatch(sales, sku_sap)
             seen == \E k \in 1..Len(accuracy_data) : accuracy_data[k]["SKU_SAP"] = sku_sap
         IN  AccuracyLoopOncePerSku(
                IF Len(sales_match) > 0 /\ ~seen
                THEN Append(accuracy_data, AccuracyRow(rofo, rofo_row, sales, sales_match[1]))
                ELSE accuracy_data,
                rofo, sales, j + 1)

\* lines 181-212: the loop over the forecast rows
RECURSIVE AccuracyLoop(_, _, _, _)
AccuracyLoop(accuracy_data, rofo, sales, j) ==
    IF j > Len(rofo.rows) THEN accuracy_data
    ELSE LET rofo_row == rofo.rows[j]
             sales_match == SalesMatch(sales, Cell(rofo, rofo_row, "SKU_SAP"))
         IN  AccuracyLoop(
                IF Len(sales_match) > 0
                THEN Append(accuracy_data, AccuracyRow(rofo, rofo_row, sales, sales_match[1]))
                ELSE accuracy_data,
                rofo, sales, j + 1)

\* every divisor calculate_forecast_accuracy divides by
AccuracyDivisors(rofo, sales) ==
    UNION {MonthDivisors(rofo, rofo.rows[j], sales,
                         SalesMatch(sales, Cell(rofo, rofo.rows[j], "SKU_SAP"))[1]) :
           j \in {x \in 1..Len(rofo.rows) :
                    Len(SalesMatch(sales, Cell(rofo, rofo.rows[x], "SKU_SAP"))) > 0}}

Returned(op, rows, divisors) ==
    [op |-> op, outcome |-> "returned", rows |-> rows, divisors |-> divisors]
Raised(op) ==
    [op |-> op, outcome |-> "raised", rows |-> <<>>, divisors |-> {}]

\* the whole method: an empty table ends it at line 179; a table without a
\* SKU_SAP column raises KeyError at line 182 or 185
calculate_forecast_accuracy(a, previous) ==
    IF Empty(a.rofo_data) \/ Empty(a.sales_data)
    THEN Returned("calculate_forecast_accuracy", <<>>, {})
    ELSE IF ~HasCol(a.rofo_data.cols, "SKU_SAP") \/ ~HasCol(a.sales_data.cols, "SKU_SAP")
    THEN Raised("calculate_forecast_accuracy")
    ELSE Returned("calculate_forecast_accuracy",
                  AccuracyLoop(InitialAccuracyData(previous), a.rofo_data, a.sales_data, 1),
                  {d.n : d \in AccuracyDivisors(a.rofo_data, a.sales_data)})

----------------------------------------------------------------------------
(* SKUAnalyzer.get_sku_info, lines 134-172 *)

InfoFields ==
    {"material", "old_material", "sku_sap", "product_name", "brand", "category", "found"}

\* lines 136-144
BlankInfo == [c \in InfoFields |-> IF c = "found" THEN Str("False") ELSE Str("")]

\* lines 148-152
MasterMatch(master, sku) ==
    SelectSeq(master.rows, LAMBDA row :
        \/ PyEq(Cell(master, row, "Material"), sku)
        \/ PyEq(Cell(master, row, "OLD_Material"), sku)
        \/ PyEq(Cell(master, row, "SKU_SAP"), sku))

\* lines 155-160
MasterInfo(master, row) ==
    [c \in InfoFields |->
        IF c = "material" THEN Cell(master, row, "Material")
        ELSE IF c = "old_material" THEN Cell(master, row, "OLD_Material")
        ELSE IF c = "sku_sap" THEN Cell(master, row, "SKU_SAP")
        ELSE IF c = "found" THEN Str("True")
        ELSE Str("")]

\* lines 166-170
SalesInfo(info, sales, row) ==
    [c \in InfoFields |->
        IF c = "product_name" THEN Cell(sales, row, "SKU_Name")
        ELSE IF c = "brand" THEN Cell(sales, row, "Brand")
        ELSE IF c = "category" THEN Cell(sales, row, "Category")
        ELSE info[c]]

get_sku_info(a, sku) ==
    IF Empty(a.master_data) THEN Returned("get_sku_info", <<BlankInfo>>, {})
    ELSE IF \E c \in {"Material", "OLD_Material", "SKU_SAP"} : ~HasCol(a.master_data.cols, c)
    THEN Raised("get_sku_info")
    ELSE LET master_match == MasterMatch(a.master_data, sku)
         IN  IF Len(master_match) = 0 THEN Returned("get_sku_info", <<BlankInfo>>, {})
             ELSE LET info == MasterInfo(a.master_data, master_match[1])
                  IN  IF Empty(a.sales_data) THEN Returned("get_sku_info", <<info>>, {})
                      ELSE IF ~HasCol(a.sales_data.cols, "SKU_SAP")
                      THEN Raised("get_sku_info")
                      ELSE LET sales_match == SalesMatch(a.sales_data, info["sku_sap"])
                           IN  IF Len(sales_match) = 0
                               THEN Returned("get_sku_info", <<info>>, {})
                               ELSE IF \E c \in {"SKU_Name", "Brand", "Category"} :
                                            ~HasCol(a.sales_data.cols, c)
                               THEN Raised("get_sku_info")
                               ELSE Returned("get_sku_info",
                                             <<SalesInfo(info, a.sales_data, sales_match[1])>>,
                                             {})

----------------------------------------------------------------------------
(* SKUAnalyzer.get_brand_performance, lines 216-247 *)

\* col.startswith('Sales_')
SalesQtyCols(cols) ==
    {i \in 1..Len(cols) : \E j \in 1..Len(SalesCols) : cols[i] = SalesCols[j]}

\* line 224
CountsForBrand(sales, row) ==
    LET brand == CellOr(sales, row, "Brand", None)
    IN  notna(brand) /\ ~PyEq(brand, Str("Brand"))

RECURSIVE SumCells(_, _)
SumCells(row, idx) ==
    IF idx = {} THEN 0
    ELSE LET i == CHOOSE x \in idx : TRUE
         IN  (IF notna(row[i]) THEN row[i].n ELSE 0) + SumCells(row, idx \ {i})

\* lines 225-229: adding a text cell to the total raises TypeError
TotalRaises(sales, row) ==
    \E i \in SalesQtyCols(sales.cols) : row[i].k = "str"

\* the rows of brand_data that are grouped: groupby drops a NaN key
BrandRows(sales) ==
    {j \in 1..Len(sales.rows) :
        /\ CountsForBrand(sales, sales.rows[j])
        /\ notna(CellOr(sales, sales.rows[j], "Category", Str("Unknown")))}

BrandKey(sales, j) ==
    <<Cell(sales, sales.rows[j], "Brand"),
      CellOr(sales, sales.rows[j], "Category", Str("Unknown"))>>

RECURSIVE SumTotals(_, _)
SumTotals(sales, js) ==
    IF js = {} THEN 0
    ELSE LET j == CHOOSE x \in js : TRUE
         IN  SumCells(sales.rows[j], SalesQtyCols(sales.cols)) + SumTotals(sales, js \ {j})

\* line 242: 'count' counts the rows of the group
SKUCount(members) == Cardinality(members)

\* lines 240-244, one group
BrandGroup(sales, key) ==
    LET members == {j \in BrandRows(sales) : BrandKey(sales, j) = key}
        total == SumTotals(sales, members)
    IN  [c \in {"Brand", "Category", "Total_Sales", "SKU_Count", "Avg_Sales_Per_SKU"} |->
            IF c = "Brand" THEN key[1]
            ELSE IF c = "Category" THEN key[2]
            ELSE IF c = "Total_Sales" THEN Num(total)
            ELSE IF c = "SKU_Count" THEN Num(SKUCount(members))
            ELSE IF SKUCount(members) = 0 THEN NaN
            ELSE IF total < 0 THEN Rat(0 - Frac(0 - total, SKUCount(members)).n,
                                       Frac(0 - total, SKUCount(members)).d)
            ELSE Frac(total, SKUCount(members))]

\* line 245: the groups by falling Total_Sales (equal totals in some order)
SortedGroups(groups) ==
    CHOOSE q \in [1..Cardinality(groups) -> groups] :
        /\ \A g \in groups : \E i \in DOMAIN q : q[i] = g
        /\ \A i, j \in DOMAIN q : i < j => q[i]["Total_Sales"].n >= q[j]["Total_Sales"].n

get_brand_performance(a) ==
    IF Empty(a.sales_data) THEN Returned("get_brand_performance", <<>>, {})
    ELSE IF \E j \in 1..Len(a.sales_data.rows) :
                /\ CountsForBrand(a.sales_data, a.sales_data.rows[j])
                /\ TotalRaises(a.sales_data, a.sales_data.rows[j])
    THEN Raised("get_brand_performance")
    ELSE LET sales == a.sales_data
             keys == {BrandKey(sales, j) : j \in BrandRows(sales)}
             groups == {BrandGroup(sales, key) : key \in keys}
         IN  Returned("get_brand_performance",
                      IF \A j \in 1..Len(sales.rows) : ~CountsForBrand(sales, sales.rows[j])
                      THEN <<>> ELSE SortedGroups(groups),
                      {g["SKU_Count"].n : g \in groups})

----------------------------------------------------------------------------
(* SKUAnalyzer.find_data_issues, lines 249-282 *)

\* set(table['SKU_SAP'].dropna())
SkuSet(t) == {Cell(t, t.rows[j], "SKU_SAP") : j \in
                {x \in 1..Len(t.rows) : notna(Cell(t, t.rows[x], "SKU_SAP"))}}

Issue(code, count) == [c \in {"issue", "count"} |-> IF c = "issue" THEN Str(code) ELSE Num(count)]

find_data_issues(a) ==
    IF Empty(a.sales_data) \/ Empty(a.master_data)
    THEN Returned("find_data_issues", <<Issue("incomplete", 0)>>, {})
    ELSE IF \/ ~HasCol(a.sales_data.cols, "SKU_SAP")
            \/ ~HasCol(a.master_data.cols, "SKU_SAP")
            \/ (~Empty(a.rofo_data) /\ ~HasCol(a.rofo_data.cols, "SKU_SAP"))
    THEN Raised("find_data_issues")
    ELSE LET sales_skus == SkuSet(a.sales_data)
             missing_master == sales_skus \ SkuSet(a.master_data)
             no_sales_forecast ==
                 IF Empty(a.rofo_data) THEN {} ELSE SkuSet(a.rofo_data) \ sales_skus
             zero_sales ==
                 IF SalesQtyCols(a.sales_data.cols) = {} THEN {}
                 ELSE {j \in 1..Len(a.sales_data.rows) :
                         SumCells(a.sales_data.rows[j], SalesQtyCols(a.sales_data.cols)) = 0}
         IN  Returned("find_data_issues",
                (IF missing_master # {}
                 THEN <<Issue("missing_master", Cardinality(missing_master))>> ELSE <<>>)
                \o (IF no_sales_forecast # {}
                    THEN <<Issue("no_sales_forecast", Cardinality(no_sales_forecast))>>
                    ELSE <<>>)
                \o (IF zero_sales # {}
                    THEN <<Issue("zero_sales", Cardinality(zero_sales))>> ELSE <<>>),
                {})

----------------------------------------------------------------------------
(* The tables a caller passes in: what get_sheet_data returns for a sheet,  *)
(* the sheet's first row as column names and one row per record.            *)

SKUs == {"A", "B"}

\* a row holds no quantities (scale 0) or a quantity that changes by the month
Scales == {0, 1}

master_header == <<"Material", "OLD Material", "SKU SAP">>
rofo_header ==
    <<"SKU GOA", "SKU SAP", "Product Name", "Brand", "Notes", "Qty/Box",
      "Jan", "Feb", "Mar", "Apr", "May", "Jun", "Jul", "Aug", "Sep", "Oct", "Nov">>
sales_header ==
    <<"Current SKU", "SKU SAP", "SKU Old", "SKU Name", "Brand", "Category", "SKU Tier",
      "Jan", "Feb", "Mar", "Apr", "May", "Jun", "Jul", "Aug", "Sep", "Oct", "Nov">>

\* a row that repeats the sheet's header line
HeaderRow(header) == [i \in 1..Len(header) |-> Str(header[i])]

\* forecast quantities rise by the month, sales quantities fall
RisingCells(scale) == [i \in 1..NumMonths |-> Num(scale * i)]
FallingCells(scale) == [i \in 1..NumMonths |-> Num(scale * (NumMonths + 1 - i))]

MasterRowKinds ==
    {<<Str("M1"), Str("O1"), Str(sku)>> : sku \in SKUs} \cup {<<NaN, Str("O2"), Str("A")>>}
RofoRowKinds ==
    {<<Str("G1"), Str(sku), Str("Product"), Str("Acme"), Str(""), Num(12)>> \o RisingCells(q) :
        sku \in SKUs, q \in Scales} \cup {HeaderRow(rofo_header)}
SalesRowKinds ==
    {<<Str(sku), Str(sku), Str("Old"), Str("Product"), Str("Acme"), Str("Food"), Str("T1")>>
        \o FallingCells(q) : sku \in SKUs, q \in Scales} \cup {HeaderRow(sales_header)}

\* all sequences over kinds of length n
RowSeqs(kinds, n) == [1..n -> kinds]

\* the table with only its first w columns
FirstColumns(t, w) ==
    Table(SubSeq(t.cols, 1, w), [j \in 1..Len(t.rows) |-> SubSeq(t.rows[j], 1, w)])

\* the sheets hold their full width, or one of them lost columns on the right
Layouts ==
    {[master |-> Len(master_header), rofo |-> Len(rofo_header), sales |-> Len(sales_header)],
     [master |-> 2, rofo |-> Len(rofo_header), sales |-> Len(sales_header)],
     [master |-> Len(master_header), rofo |-> 1, sales |-> Len(sales_header)],
     [master |-> Len(master_header), rofo |-> Len(rofo_header), sales |-> 1]}

Sheet(header, rows, w) ==
    IF Len(rows) = 0 THEN NoTable ELSE FirstColumns(Table(header, rows), w)

RowCounts ==
    {c \in [{"master", "rofo", "sales"} -> 0..MaxRows] :
        c["master"] + c["rofo"] + c["sales"] <= MaxRows}

----------------------------------------------------------------------------
(* The state machine *)

NotBuilt ==
    [built |-> FALSE, master_data |-> NoTable, rofo_data |-> NoTable,
     sales_data |-> NoTable, has_mapping |-> FALSE, sku_mapping |-> EmptyDict]

Nothing == [op |-> "none", outcome |-> "returned", rows |-> <<>>, divisors |-> {}]

\* main() has not been entered: the analyzer is driven by its caller directly
NotRunning ==
    [pc |-> "idle", credentials |-> "None", fetched |-> {}, reported |-> FALSE, page |-> ""]

Init ==
    /\ \E c \in RowCounts, w \in Layouts :
        /\ \E rows \in RowSeqs(MasterRowKinds, c["master"]) :
              caller_master = Sheet(master_header, rows, w.master)
        /\ \E rows \in RowSeqs(RofoRowKinds, c["rofo"]) :
              caller_rofo = Sheet(rofo_header, rows, w.rofo)
        /\ \E rows \in RowSeqs(SalesRowKinds, c["sales"]) :
              caller_sales = Sheet(sales_header, rows, w.sales)
    /\ analyzer = NotBuilt
    /\ errors = 0
    /\ last = Nothing
    /\ first_accuracy = <<>>
    /\ main = NotRunning

\* SKUAnalyzer(master_data, rofo_data, sales_data), lines 84-88
Build ==
    /\ LET p == prepare_data(caller_master, caller_rofo, caller_sales)
       IN  /\ analyzer' = [built |-> TRUE, master_data |-> p.master_data,
                           rofo_data |-> p.rofo_data, sales_data |-> p.sales_data,
                           has_mapping |-> p.has_mapping, sku_mapping |-> p.sku_mapping]
           /\ caller_master' = p.caller_master
           /\ caller_rofo' = p.caller_rofo
           /\ caller_sales' = p.caller_sales
           /\ errors' = IF p.raised THEN 1 ELSE 0
    /\ last' = Returned("__init__", <<>>, {})
    /\ first_accuracy' = IF Len(first_accuracy) = 0 THEN first_accuracy
                         ELSE <<[first_accuracy[1] EXCEPT !.stale = TRUE]>>

\* analyzer = SKUAnalyzer(master_data, rofo_data, sales_data) by a caller
Construct == Build /\ UNCHANGED main

\* the rows an earlier call collected
PreviousAccuracyData ==
    IF Len(first_accuracy) = 0 THEN <<>> ELSE first_accuracy[1].result.rows

CalculateForecastAccuracy ==
    /\ analyzer.built
    /\ last' = calculate_forecast_accuracy(analyzer, PreviousAccuracyData)
    /\ first_accuracy' = IF Len(first_accuracy) = 0
                         THEN <<[stale |-> FALSE, result |-> last']>>
                         ELSE first_accuracy
    /\ UNCHANGED <<caller_master, caller_rofo, caller_sales, analyzer, errors, main>>

GetSkuInfo ==
    /\ analyzer.built
    /\ \E sku \in {"A", "M1"} : last' = get_sku_info(analyzer, Str(sku))
    /\ UNCHANGED <<caller_master, caller_rofo, caller_sales, analyzer, errors,
                   first_accuracy, main>>

GetBrandPerformance ==
    /\ analyzer.built
    /\ last' = get_brand_performance(analyzer)
    /\ UNCHANGED <<caller_master, caller_rofo, caller_sales, analyzer, errors,
                   first_accuracy, main>>

FindDataIssues ==
    /\ analyzer.built
    /\ last' = find_data_issues(analyzer)
    /\ UNCHANGED <<caller_master, caller_rofo, caller_sales, analyzer, errors,
                   first_accuracy, main>>

Next ==
    \/ Construct
    \/ CalculateForecastAccuracy
    \/ GetSkuInfo
    \/ GetBrandPerformance
    \/ FindDataIssues

Spec == Init /\ [][Next]_vars

----------------------------------------------------------------------------
(* calculate_forecast_accuracy on one forecast row and one sales row of the *)
(* same SKU: the cells of the first two months are drawn from the values a  *)
(* sheet can hold, the later months hold a zero forecast.                   *)

MaxQty == 3

\* get_all_records gives a number for a numeric cell and '' for a blank one;
\* a table built with missing keys holds NaN
CellValues == {Num(q) : q \in (0 - MaxQty)..MaxQty} \cup {NaN, Str("")}

ForecastRow(f1, f2) ==
    <<Str("G1"), Str("A"), Str("Product"), Str("Acme"), Str(""), Num(12)>>
        \o <<f1, f2>> \o SubSeq(RisingCells(0), 3, NumMonths)

SalesRow(s1, s2) ==
    <<Str("A"), Str("A"), Str("Old"), Str("Product"), Str("Acme"), Str("Food"), Str("T1")>>
        \o <<s1, s2>> \o SubSeq(FallingCells(1), 3, NumMonths)

AccuracyInit ==
    /\ caller_master = Table(master_header, <<<<Str("M1"), Str("O1"), Str("A")>>>>)
    /\ \E f1 \in CellValues, f2 \in CellValues :
          caller_rofo = Table(rofo_header, <<ForecastRow(f1, f2)>>)
    /\ \E s1 \in CellValues, s2 \in CellValues :
          caller_sales = Table(sales_header, <<SalesRow(s1, s2)>>)
    /\ analyzer = NotBuilt
    /\ errors = 0
    /\ last = Nothing
    /\ first_accuracy = <<>>
    /\ main = NotRunning

AccuracyNext ==
    \/ Construct
    \/ CalculateForecastAccuracy

AccuracySpec == AccuracyInit /\ [][AccuracyNext]_vars

----------------------------------------------------------------------------
(* main, lines 284-335, one step per statement that can end it.  The local  *)
(* variables master_data, rofo_data and sales_data are caller_master,       *)
(* caller_rofo and caller_sales.                                            *)

\* number of data rows of a sheet main fetches
MaxSheetRows == 1

SheetNames == {"master data", "Rofo", "Sales"}

\* the options of the sidebar radio, lines 323-325
Pages ==
    {"Dashboard Overview", "SKU Search", "Forecast Accuracy", "Brand Analysis",
     "Data Issues", "Export Data"}

\* what get_all_records can deliver for a sheet: no record, or some rows
SheetTables(header, kinds) ==
    {NoTable} \cup
    UNION {{Table(header, rows) : rows \in RowSeqs(kinds, n)} : n \in 1..MaxSheetRows}

MainInit ==
    /\ caller_master = NoTable
    /\ caller_rofo = NoTable
    /\ caller_sales = NoTable
    /\ analyzer = NotBuilt
    /\ errors = 0
    /\ last = Nothing
    /\ first_accuracy = <<>>
    /\ main = [NotRunning EXCEPT !.pc = "connect"]

\* lines 288-292: GoogleSheetsConnector() loads the credentials; when that
\* fails get_credentials reports it and returns None, and main ends, at line
\* 292 or with what gspread.authorize(None) raises at line 45
Connect ==
    /\ main.pc = "connect"
    /\ \/ main' = [main EXCEPT !.pc = "fetch master data", !.credentials = "Credentials"]
       \/ main' = [main EXCEPT !.pc = "done", !.reported = TRUE]
    /\ UNCHANGED <<caller_master, caller_rofo, caller_sales, analyzer, errors, last,
                   first_accuracy>>

\* get_sheet_data, lines 72-81: the records of the sheet as a table, or, on any
\* exception, a report and an empty table
GetSheetData(reported, table, sheets) ==
    \/ table \in sheets /\ reported = main.reported
    \/ table = NoTable /\ reported = TRUE

\* line 300
FetchMaster ==
    /\ main.pc = "fetch master data"
    /\ \E reported \in BOOLEAN, table \in SheetTables(master_header, MasterRowKinds) :
        /\ GetSheetData(reported, table, SheetTables(master_header, MasterRowKinds))
        /\ caller_master' = table
        /\ main' = [main EXCEPT !.pc = "fetch Rofo", !.reported = reported,
                                !.fetched = @ \cup {"master data"}]
    /\ UNCHANGED <<caller_rofo, caller_sales, analyzer, errors, last, first_accuracy>>

\* line 301
FetchRofo ==
    /\ main.pc = "fetch Rofo"
    /\ \E reported \in BOOLEAN, table \in SheetTables(rofo_header, RofoRowKinds) :
        /\ GetSheetData(reported, table, SheetTables(rofo_header, RofoRowKinds))
        /\ caller_rofo' = table
        /\ main' = [main EXCEPT !.pc = "fetch Sales", !.reported = reported,
                                !.fetched = @ \cup {"Rofo"}]
    /\ UNCHANGED <<caller_master, caller_sales, analyzer, errors, last, first_accuracy>>

\* line 302
FetchSales ==
    /\ main.pc = "fetch Sales"
    /\ \E reported \in BOOLEAN, table \in SheetTables(sales_header, SalesRowKinds) :
        /\ GetSheetData(reported, table, SheetTables(sales_header, SalesRowKinds))
        /\ caller_sales' = table
        /\ main' = [main EXCEPT !.pc = "check", !.reported = reported,
                                !.fetched = @ \cup {"Sales"}]
    /\ UNCHANGED <<caller_master, caller_rofo, analyzer, errors, last, first_accuracy>>

\* main going on to the analyzer whatever the sheets hold
SheetsNotChecked ==
    /\ main.pc = "check"
    /\ main' = [main EXCEPT !.pc = "construct"]
    /\ UNCHANGED <<caller_master, caller_rofo, caller_sales, analyzer, errors, last,
                   first_accuracy>>

\* lines 304-306
CheckSheets ==
    /\ main.pc = "check"
    /\ main' = IF Empty(caller_master) \/ Empty(caller_rofo) \/ Empty(caller_sales)
               THEN [main EXCEPT !.pc = "done", !.reported = TRUE]
               ELSE [main EXCEPT !.pc = "construct"]
    /\ UNCHANGED <<caller_master, caller_rofo, caller_sales, analyzer, errors, last,
                   first_accuracy>>

\* line 309
MainConstruct ==
    /\ main.pc = "construct"
    /\ Build
    /\ main' = [main EXCEPT !.pc = "dispatch", !.reported = @ \/ errors' > 0]

\* the analyzer method a page function calls first: lines 368, 412, 477, 514,
\* 542 and 602; the search and the export call theirs on the user's input only
PageCalls(page) ==
    IF page \in {"Dashboard Overview", "Data Issues"} THEN {find_data_issues(analyzer)}
    ELSE IF page = "SKU Search"
    THEN {Returned("show_sku_search", <<>>, {})}
            \cup {get_sku_info(analyzer, Str(sku)) : sku \in {"A", "M1"}}
    ELSE IF page = "Forecast Accuracy"
    THEN {calculate_forecast_accuracy(analyzer, PreviousAccuracyData)}
    ELSE IF page = "Brand Analysis" THEN {get_brand_performance(analyzer)}
    ELSE {Returned("show_export_data", <<>>, {}),
          calculate_forecast_accuracy(analyzer, PreviousAccuracyData)}

\* lines 322-335: the page the radio holds is dispatched
Dispatch ==
    /\ main.pc = "dispatch"
    /\ \E page \in Pages :
        /\ main' = [main EXCEPT !.pc = "done", !.page = page]
        /\ \E result \in PageCalls(page) : last' = result
    /\ UNCHANGED <<caller_master, caller_rofo, caller_sales, analyzer, errors,
                   first_accuracy>>

MainNext ==
    \/ Connect
    \/ FetchMaster
    \/ FetchRofo
    \/ FetchSales
    \/ CheckSheets
    \/ MainConstruct
    \/ Dispatch

MainSpec == MainInit /\ [][MainNext]_vars

----------------------------------------------------------------------------
(* What the claims speak of *)

CalcReturned ==
    last.op = "calculate_forecast_accuracy" /\ last.outcome = "returned"

\* the quantity a row holds in a column: 0 when the cell is absent or no number
Qty(t, row, col) ==
    IF HasCol(t.cols, col) /\ Cell(t, row, col).k = "num" THEN Cell(t, row, col).n ELSE 0

RowsOf(t, sku) ==
    {j \in 1..Len(t.rows) : PyEq(CellOr(t, t.rows[j], "SKU_SAP", None), sku)}

RECURSIVE SumQty(_, _, _)
SumQty(t, js, col) ==
    IF js = {} THEN 0
    ELSE LET j == CHOOSE x \in js : TRUE
         IN  Qty(t, t.rows[j], col) + SumQty(t, js \ {j}, col)

\* F and A of a (SKU, month): all rows of the source for that SKU, summed
ForecastQty(sku, i) == SumQty(analyzer.rofo_data, RowsOf(analyzer.rofo_data, sku), ForecastCols[i])
ActualQty(sku, i) == SumQty(analyzer.sales_data, RowsOf(analyzer.sales_data, sku), SalesCols[i])

\* the SKUs of a source that hold a nonzero quantity in some month
NonzeroSkus(t, cols) ==
    {CellOr(t, t.rows[j], "SKU_SAP", None) : j \in
        {x \in 1..Len(t.rows) : \E i \in Months : Qty(t, t.rows[x], cols[i]) # 0}}

OutputSkus == {last.rows[k]["SKU_SAP"] : k \in 1..Len(last.rows)}

\* the status of F and A by the first rule that matches: F = 0 and A > 0;
\* F > 0 and A = 0; 0.8 <= A/F <= 1.2; A/F < 0.8; A/F > 1.2
StatusOf(F, A) ==
    IF F = 0 /\ A > 0 THEN "UnforecastedDemand"
    ELSE IF F > 0 /\ A = 0 THEN "MissedNoSupply"
    ELSE IF F = 0 THEN "Accurate"                       \* far = 1.0
    ELSE IF 8 * F <= 10 * A /\ 10 * A <= 12 * F THEN "Accurate"
    ELSE IF 10 * A < 8 * F THEN "UnderDelivery"
    ELSE "OverDelivery"

\* far: A / F, and the fixed values 10.0 and 1.0 for a zero forecast
FarOf(F, A) ==
    IF F > 0 THEN Frac(A, F) ELSE IF A > 0 THEN Num(10) ELSE Num(1)

\* a (SKU, month) of the output that holds a quantity in some source
HoldsQuantity(k, i) ==
    \/ ForecastQty(last.rows[k]["SKU_SAP"], i) # 0
    \/ ActualQty(last.rows[k]["SKU_SAP"], i) # 0

\* C1: every output row carries, for each month that holds a quantity, the
\* status of its forecast quantity F and actual quantity A: one of the five
\* values, chosen by the first matching rule.
C1_StatusByPriority ==
    CalcReturned =>
        \A k \in 1..Len(last.rows) : \A i \in Months :
            HoldsQuantity(k, i) =>
                \E c \in DOMAIN last.rows[k] :
                    last.rows[k][c] = Str(StatusOf(ForecastQty(last.rows[k]["SKU_SAP"], i),
                                                   ActualQty(last.rows[k]["SKU_SAP"], i)))

\* C2: the metric of every (SKU, month) that holds a quantity is far: A / F
\* when F > 0 and 10.0 when F = 0 and A > 0; a zero forecast gives a number.
C2_FarDefined ==
    CalcReturned =>
        \A k \in 1..Len(last.rows) : \A i \in Months :
            HoldsQuantity(k, i) =>
                /\ last.rows[k][AccuracyCols[i]].k = "num"
                /\ PyEq(last.rows[k][AccuracyCols[i]],
                        FarOf(ForecastQty(last.rows[k]["SKU_SAP"], i),
                              ActualQty(last.rows[k]["SKU_SAP"], i)))

\* C3: every SKU that holds a nonzero quantity in the forecast table or in the
\* sales table appears in the output, also when the other table lacks it.
C3_OuterJoin ==
    CalcReturned =>
        (NonzeroSkus(analyzer.rofo_data, ForecastCols)
            \cup NonzeroSkus(analyzer.sales_data, SalesCols)) \subseteq OutputSkus

\* C4: when a source holds several rows for one (SKU, month), the output is
\* computed from the sum of their quantities.
C4_DuplicatesSummed ==
    CalcReturned =>
        \A k \in 1..Len(last.rows) : \A i \in Months :
            LET F == Num(ForecastQty(last.rows[k]["SKU_SAP"], i))
                A == Num(ActualQty(last.rows[k]["SKU_SAP"], i))
            IN  last.rows[k][AccuracyCols[i]] =
                    IF DivisionGuard(F, A) THEN Accuracy(F, A) ELSE None

\* C5: no output row stands for quantities that are zero in every source.
C5_NoAllZeroRow ==
    CalcReturned =>
        \A k \in 1..Len(last.rows) : \E i \in Months :
            \/ ForecastQty(last.rows[k]["SKU_SAP"], i) # 0
            \/ ActualQty(last.rows[k]["SKU_SAP"], i) # 0

\* C6: no operation of the analyzer divides by zero: every divisor of a
\* division it executed is nonzero.
C6_NoDivisionByZero == 0 \notin last.divisors

\* a zero forecast was skipped by the guard beside forecasts that were divided by
C6_Witness ==
    /\ CalcReturned
    /\ last.divisors # {}
    /\ \E k \in 1..Len(last.rows) : last.rows[k]["Accuracy_01"] = None

\* C7: once data preparation reported an error, no later operation of the
\* analyzer raises.
C7_NoFaultAfterError == errors > 0 => last.outcome # "raised"

\* C8: with an empty sales table, the forecast rows that hold a quantity are
\* still output.
C8_PartialSources ==
    (CalcReturned /\ Empty(analyzer.sales_data) /\ ~Empty(analyzer.rofo_data))
        => NonzeroSkus(analyzer.rofo_data, ForecastCols) \subseteq OutputSkus

\* C9: no step changes the column names or the rows of the three tables the
\* caller passed in.
C9_InputsUnchanged ==
    [][/\ caller_master' = caller_master
       /\ caller_rofo' = caller_rofo
       /\ caller_sales' = caller_sales]_vars

\* C10: every result of calculate_forecast_accuracy equals the first one, also
\* when a new analyzer was built on the caller's tables in between.
C10_Idempotent ==
    (last.op = "calculate_forecast_accuracy" /\ Len(first_accuracy) > 0)
        => last = first_accuracy[1].result

\* a second analyzer, built on tables the first one renamed, returned rows
C10_Witness ==
    /\ CalcReturned
    /\ Len(first_accuracy) > 0 /\ first_accuracy[1].stale
    /\ Len(last.rows) > 0
    /\ caller_rofo.cols # rofo_header

\* the forecast and the sales value of month i, when the analyzer holds one
\* forecast row and one sales row
ForecastVal(i) == Cell(analyzer.rofo_data, analyzer.rofo_data.rows[1], ForecastCols[i])
SalesVal(i) == Cell(analyzer.sales_data, analyzer.sales_data.rows[1], SalesCols[i])

\* acc is (1 - |S - F| / F) * 100 clamped to [0, 100], for integers F # 0 and S;
\* the percentage is N / D with D > 0
IsClampedPercentage(acc, F, S) ==
    LET N == IF F > 0 THEN 100 * (F - Abs(S - F)) ELSE 100 * (Abs(S - F) - F)
        D == Abs(F)
    IN  /\ acc.k = "num"
        /\ IF N < 0 THEN acc.n = 0
           ELSE IF N > 100 * D THEN acc.n = 100 * acc.d
           ELSE acc.n * D = N * acc.d

\* C11: every monthly accuracy of a returned row is None or a number in
\* [0, 100]; it is None when the forecast is zero or a value is missing; for
\* a nonzero forecast F and sales S it is (1 - |S - F| / F) * 100 clamped to
\* [0, 100], which is 100 for a negative forecast.
C11_AccuracyRange ==
    (CalcReturned /\ Len(analyzer.rofo_data.rows) = 1 /\ Len(analyzer.sales_data.rows) = 1) =>
        \A k \in 1..Len(last.rows) : \A i \in Months :
            LET acc == last.rows[k][AccuracyCols[i]]
                F == ForecastVal(i)
                S == SalesVal(i)
            IN  /\ acc = None \/ (acc.k = "num" /\ acc.d > 0 /\ 0 <= acc.n /\ acc.n <= 100 * acc.d)
                /\ (~notna(F) \/ ~notna(S) \/ PyEq(F, Num(0))) => acc = None
                /\ (F.k = "num" /\ S.k = "num" /\ F.n # 0) =>
                        /\ IsClampedPercentage(acc, F.n, S.n)
                        /\ F.n < 0 => acc = Num(100)

\* a negative forecast gave 100, a forecast of 3 against sales of 2 gave 200/3,
\* and a zero forecast gave None
C11_Witness ==
    /\ CalcReturned /\ Len(last.rows) = 1
    /\ ForecastVal(1).k = "num" /\ ForecastVal(1).n < 0 /\ SalesVal(1).k = "num"
    /\ last.rows[1]["Accuracy_01"] = Num(100)
    /\ last.rows[1]["Accuracy_02"] = Rat(200, 3)
    /\ last.rows[1]["Accuracy_03"] = None

\* C12: a page is dispatched, and an analyzer is constructed, only with loaded
\* credentials and after all three sheets were fetched as non-empty tables;
\* when the credentials fail to load or a sheet comes back empty, main has
\* reported an error and ends with no page run and no analyzer built.
C12_MainGating ==
    LET ready == /\ main.credentials = "Credentials"
                 /\ main.fetched = SheetNames
                 /\ ~Empty(caller_master) /\ ~Empty(caller_rofo) /\ ~Empty(caller_sales)
    IN  /\ main.page # "" => ready /\ analyzer.built
        /\ analyzer.built => ready
        /\ (main.pc = "done" /\ ~ready) =>
                main.reported /\ main.page = "" /\ ~analyzer.built

\* main ended on an empty forecast sheet after fetching the two other sheets
C12_Witness ==
    /\ main.pc = "done" /\ main.page = ""
    /\ main.credentials = "Credentials" /\ main.fetched = SheetNames
    /\ ~Empty(caller_master) /\ Empty(caller_rofo) /\ ~Empty(caller_sales)

\* the forecast rows whose SKU_SAP is the SKU_SAP of some sales row
MatchedForecastRows ==
    {j \in 1..Len(analyzer.rofo_data.rows) :
        \E x \in 1..Len(analyzer.sales_data.rows) :
            PyEq(Cell(analyzer.sales_data, analyzer.sales_data.rows[x], "SKU_SAP"),
                 Cell(analyzer.rofo_data, analyzer.rofo_data.rows[j], "SKU_SAP"))}

\* the k-th of them in the order of the forecast table
KthMatched(k) ==
    CHOOSE j \in MatchedForecastRows :
        Cardinality({x \in MatchedForecastRows : x <= j}) = k

\* the first sales row with the SKU_SAP of forecast row j
FirstSalesRow(j) ==
    LET hits == {x \in 1..Len(analyzer.sales_data.rows) :
                    PyEq(Cell(analyzer.sales_data, analyzer.sales_data.rows[x], "SKU_SAP"),
                         Cell(analyzer.rofo_data, analyzer.rofo_data.rows[j], "SKU_SAP"))}
    IN  CHOOSE x \in hits : \A y \in hits : x <= y

\* C13: the result holds one row for each forecast row whose SKU_SAP some
\* sales row has, in the order of the forecast rows, and no other row; a row
\* is computed from the first matching sales row; the result is empty when
\* the forecast table or the sales table is empty.
C13_RowPerMatchingForecastRow ==
    CalcReturned =>
        IF Empty(analyzer.rofo_data) \/ Empty(analyzer.sales_data)
        THEN last.rows = <<>>
        ELSE /\ Len(last.rows) = Cardinality(MatchedForecastRows)
             /\ \A k \in 1..Len(last.rows) :
                    LET j == KthMatched(k)
                        rofo_row == analyzer.rofo_data.rows[j]
                        sales_row == analyzer.sales_data.rows[FirstSalesRow(j)]
                    IN  /\ last.rows[k]["SKU_SAP"] = Cell(analyzer.rofo_data, rofo_row, "SKU_SAP")
                        /\ \A i \in Months :
                              LET F == Cell(analyzer.rofo_data, rofo_row, ForecastCols[i])
                                  S == Cell(analyzer.sales_data, sales_row, SalesCols[i])
                              IN  last.rows[k][AccuracyCols[i]] =
                                      IF DivisionGuard(F, S) THEN Accuracy(F, S) ELSE None

\* two forecast rows of one SKU_SAP gave two rows of the result
C13_Witness ==
    /\ CalcReturned
    /\ Len(last.rows) = 2
    /\ last.rows[1]["SKU_SAP"] = last.rows[2]["SKU_SAP"]
    /\ last.rows[1] # last.rows[2]

\* C14: once an analyzer is built, its forecast table holds no row whose SKU
\* SAP cell is the header text 'SKU SAP', its sales table holds no row whose
\* first cell contains 'Current SKU', and the SKU mapping exists, also when
\* the cleaning of an earlier table raised.
C14_CleanedAfterPrepare ==
    analyzer.built =>
        /\ \A j \in 1..Len(analyzer.rofo_data.rows) :
              Len(analyzer.rofo_data.cols) >= 2 =>
                  analyzer.rofo_data.rows[j][2] # Str("SKU SAP")
        /\ \A j \in 1..Len(analyzer.sales_data.rows) :
              ~ContainsCurrentSKU(analyzer.sales_data.rows[j][1])
        /\ analyzer.has_mapping

====
